---- MODULE Spec2Model ----
(***************************************************************************)
(* Officer registration / subscription backend (src/server.js).            *)
(*                                                                         *)
(* The state is the Officer collection of the document store plus the      *)
(* request handlers in flight.  Every handler is an async function: it     *)
(* gives up control at each await, so other handlers may run between two   *)
(* of its persistence calls.  One action models one persistence call of a  *)
(* handler together with the synchronous code (and the bcrypt awaits,      *)
(* which touch no shared state) that surrounds it.                         *)
(*                                                                         *)
(* Strings are sequences of one-character strings, so that the regular     *)
(* expressions of the source are computed character by character.          *)
(* A Date is modelled by a token naming the handler that took it.          *)
(***************************************************************************)
EXTENDS Integers, Sequences, FiniteSets, TLC

VARIABLES
    officers,   \* the Officer collection: sequence of documents, _id = index
    admins,     \* the Admin collection: sequence of documents, _id = index
    results,    \* the Result collection: sequence of documents, _id = index
    boot,       \* the initializeAdmin invocations, one record per server instance
    proc,       \* the request handlers in flight, one record per slot
    matched,    \* history: _ids an activation lookup has found
    matchedTx,  \* history: <<_id, transactionId>> an activation lookup has found
    stored,     \* history: <<username, password>> last accepted by signup or reset
    activated,  \* history: <<_id, transactionId>> activated and not resubmitted since
    scenario,   \* monitor of the signup..status scenario (serial runs only)
    started,    \* number of requests received so far
    actor,      \* the slot that took the last step
    serial      \* TRUE: requests are handled one after another

vars == <<officers, admins, results, boot, proc, matched, matchedTx, stored,
          activated, scenario, started, actor, serial>>

(***************************************************************************)
(* Bounds and input values                                                 *)
(***************************************************************************)
MaxRequests == 5

\* requests taken by a run over every handler of the server
MaxRequestsAll == 3

\* two handlers can be in flight at a time
Procs == {1, 2}

undefined == <<"undefined">>

Digits == {"0", "1", "2", "3", "4", "5", "6", "7", "8", "9"}

U1 == <<"u", "1">>
U2 == <<"u", "2">>
M1 == <<"1", "2", "3", "4", "5", "6", "7", "8", "9", "0">>
M2 == <<"0", "9", "8", "7", "6", "5", "4", "3", "2", "1">>
MShort == <<"1", "2", "3", "4", "5", "6", "7", "8", "9">>
MAlpha == <<"1", "2", "3", "4", "5", "6", "7", "8", "9", "x">>
T1 == <<"1", "2", "3", "4", "5", "6", "7", "8", "9", "0", "1", "2">>
T2 == <<"2", "1", "0", "9", "8", "7", "6", "5", "4", "3", "2", "1">>
TShort == <<"1", "2", "3", "4", "5", "6", "7", "8", "9", "0", "1">>
P1 == <<"p", "1">>
P2 == <<"p", "2">>
NameA == <<"A">>
AddrX == <<"X">>

Usernames == {U1, U2}
Mobiles == {M1, M2}
TransactionIds == {T1, T2}
\* the salts bcrypt may draw; concurrent runs draw one, to stay small
Salts == IF serial THEN {"s", "t"} ELSE {"s"}

\* req.body after destructuring: a field the request omits is undefined
Body(name, address, mobile, username, password, transactionId) ==
    [name |-> name, address |-> address, mobile |-> mobile,
     username |-> username, password |-> password,
     transactionId |-> transactionId]

\* well-formed signups, and each of them with one field omitted or malformed
WellFormedSignups ==
    {Body(NameA, AddrX, m, u, P1, undefined) : m \in Mobiles, u \in Usernames}

MalformedSignups ==
    UNION {{[b EXCEPT !.name = undefined], [b EXCEPT !.address = undefined],
            [b EXCEPT !.username = undefined], [b EXCEPT !.password = undefined],
            [b EXCEPT !.mobile = undefined], [b EXCEPT !.mobile = MShort],
            [b EXCEPT !.mobile = MAlpha]} : b \in WellFormedSignups}

\* serial runs draw every input; concurrent runs draw the well-formed ones
SignupBodies ==
    IF serial THEN WellFormedSignups \cup MalformedSignups
    ELSE WellFormedSignups

LoginBodies ==
    IF serial
    THEN {Body(undefined, undefined, undefined, u, p, undefined) :
            u \in Usernames, p \in {P1, P2, undefined}}
    ELSE {Body(undefined, undefined, undefined, U1, P1, undefined)}

TransactionBodies ==
    IF serial
    THEN {Body(undefined, undefined, undefined, u, undefined, t) :
            u \in Usernames,
            t \in TransactionIds \cup {TShort, <<>>, undefined}}
    ELSE {Body(undefined, undefined, undefined, u, undefined, t) :
            u \in Usernames, t \in TransactionIds}

StatusBodies ==
    IF serial
    THEN {Body(undefined, undefined, undefined, u, undefined, undefined) :
            u \in Usernames}
    ELSE {Body(undefined, undefined, undefined, U1, undefined, undefined)}

ResetBodies ==
    IF serial
    THEN {Body(undefined, undefined, m, u, p, undefined) :
            m \in Mobiles, u \in Usernames, p \in {P2, undefined}}
    ELSE {Body(undefined, undefined, M1, U1, P2, undefined)}

ActivateBodies ==
    IF serial
    THEN {Body(undefined, undefined, undefined, undefined, undefined, t) :
            t \in TransactionIds \cup {TShort, undefined}}
    ELSE {Body(undefined, undefined, undefined, undefined, undefined, t) :
            t \in TransactionIds}

(***************************************************************************)
(* Validation and credentials                                              *)
(***************************************************************************)
\* RegExp.prototype.test converts its argument to a string first
StringOf(v) ==
    IF v = undefined
    THEN <<"u", "n", "d", "e", "f", "i", "n", "e", "d">>
    ELSE v

\* /^\d{n}$/.test(v)
TestDigits(n, v) ==
    LET s == StringOf(v)
    IN  Len(s) = n /\ \A k \in 1..Len(s) : s[k] \in Digits

IsValidMobile(v) == TestDigits(10, v)

\* mutant: only a missing transactionId is refused
InvalidTransactionIdMissingOnly(t) == t = undefined \/ t = <<>>

\* !transactionId || !/^\d{12}$/.test(transactionId)
InvalidTransactionId(t) ==
    t = undefined \/ t = <<>> \/ ~TestDigits(12, t)

\* bcryptjs rejects a non-string argument with "Illegal arguments"
IllegalArguments(s) == s = undefined

\* bcrypt.hash(s, 10): a digest that carries its salt
Hash(s, salt) == <<"$", salt>> \o s

\* mutant: the result of the comparison is ignored
CompareAlways(s, digest) == TRUE

\* bcrypt.compare(s, digest): rehash s under the digest's salt
Compare(s, digest) == Hash(s, digest[2]) = digest

(***************************************************************************)
(* The Officer schema and the persistence layer                            *)
(***************************************************************************)
Ids == 1..Len(officers)

\* a Date taken by handler h
Now(h) == <<h>>

\* mutant: the schema default of subscribed is true
NewOfficerSubscribed(id, b, digest) ==
    [_id |-> id, name |-> b.name, address |-> b.address, mobile |-> b.mobile,
     username |-> b.username, password |-> digest, subscribed |-> TRUE,
     transactionId |-> undefined, subscriptionDate |-> undefined,
     createdAt |-> id]

\* Officer.create({name, address, mobile, username, password}) with defaults
NewOfficer(id, b, digest) ==
    [_id |-> id, name |-> b.name, address |-> b.address, mobile |-> b.mobile,
     username |-> b.username, password |-> digest, subscribed |-> FALSE,
     transactionId |-> undefined, subscriptionDate |-> undefined,
     createdAt |-> id]

\* required: true on a String path
Required(v) == v # undefined /\ v # <<>>

\* schema validation run by create
ValidOfficer(d) ==
    /\ Required(d.name)
    /\ Required(d.address)
    /\ Required(d.mobile) /\ IsValidMobile(d.mobile)
    /\ Required(d.username)
    /\ Required(d.password)

\* mutant: mobile lacks unique: true
DuplicateUsernameOnly(docs, d) ==
    \E k \in 1..Len(docs) : docs[k].username = d.username

\* unique indexes on mobile and username (a new document has no transactionId)
DuplicateKeyOnCreate(docs, d) ==
    \E k \in 1..Len(docs) :
        docs[k].mobile = d.mobile \/ docs[k].username = d.username

\* mutant: transactionId lacks unique: true
NoTransactionIdIndex(docs, id, t) == FALSE

\* unique sparse index on transactionId
DuplicateKeyOnUpdate(docs, id, t) ==
    \E k \in 1..Len(docs) : k # id /\ docs[k].transactionId = t

\* findOne: the first of the matching documents, 0 (null) when there is none
FindOne(matching) ==
    IF matching = {} THEN 0
    ELSE CHOOSE k \in matching : \A j \in matching : k <= j

\* officer.toObject(); delete officerData.password
StripPassword(d) == [f \in (DOMAIN d) \ {"password"} |-> d[f]]

(***************************************************************************)
(* Handler slots                                                           *)
(***************************************************************************)
NoBody == Body(undefined, undefined, undefined, undefined, undefined, undefined)
NoDoc == [_id |-> 0]
NoResp == [status |-> 0, json |-> [none |-> TRUE]]

Idle == [pc |-> "idle", op |-> "none", body |-> NoBody, doc |-> NoDoc,
         resp |-> NoResp, thrown |-> "none"]

\* the handler of slot i awaits persistence call pc
Await(op, b, pc, doc) ==
    [pc |-> pc, op |-> op, body |-> b, doc |-> doc, resp |-> NoResp,
     thrown |-> "none"]

\* res.status(status).json(json)
Respond(op, b, status, json) ==
    [pc |-> "done", op |-> op, body |-> b, doc |-> NoDoc,
     resp |-> [status |-> status, json |-> json], thrown |-> "none"]

\* catch (error) { res.status(500).json({ error: 'Server error' }) }
Catch(op, b, error) ==
    [pc |-> "done", op |-> op, body |-> b, doc |-> NoDoc,
     resp |-> [status |-> 500, json |-> [error |-> "Server error"]],
     thrown |-> error]

\* a request can be taken by a free slot; serial runs use one slot only
CanStart(i) ==
    /\ proc[i].pc \in {"idle", "done"}
    /\ serial => i = 1
    /\ started < MaxRequests

(***************************************************************************)
(* History and monitor bookkeeping (not part of the program)               *)
(***************************************************************************)
NoScenario ==
    [stage |-> 0, username |-> undefined, password |-> undefined,
     transactionId |-> undefined, ok |-> TRUE, mobileFree |-> TRUE]

\* The scenario signup(u, m, p); login(u, p); submit-transaction(u, t);
\* activate(t); status(u), followed over consecutive completed requests.
\* p is the completed slot, pre the collection the request started from.
ScenarioStep(s, p, pre) ==
    LET b == p.body
        r == p.resp
        K == 1..Len(pre)
    IN  IF /\ p.op = "signup"
           /\ IsValidMobile(b.mobile)
           /\ Required(b.name) /\ Required(b.address)
           /\ Required(b.username) /\ Required(b.password)
           /\ ~\E k \in K : pre[k].username = b.username
        THEN [stage |-> 1, username |-> b.username, password |-> b.password,
              transactionId |-> undefined, ok |-> r.status = 200,
              mobileFree |-> ~\E k \in K : pre[k].mobile = b.mobile]
        ELSE IF /\ s.stage = 1 /\ p.op = "login"
                /\ b.username = s.username /\ b.password = s.password
        THEN [s EXCEPT !.stage = 2,
                       !.ok = @ /\ r.status = 200 /\ r.json.subscribed = FALSE]
        ELSE IF /\ s.stage = 2 /\ p.op = "submit-transaction"
                /\ b.username = s.username
                /\ ~InvalidTransactionId(b.transactionId)
                /\ ~\E k \in K : pre[k].transactionId = b.transactionId
        THEN [s EXCEPT !.stage = 3, !.transactionId = b.transactionId,
                       !.ok = @ /\ r.status = 200]
        ELSE IF /\ s.stage = 3 /\ p.op = "activate"
                /\ b.transactionId = s.transactionId
        THEN [s EXCEPT !.stage = 4, !.ok = @ /\ r.status = 200]
        ELSE IF /\ s.stage = 4 /\ p.op = "status"
                /\ b.username = s.username
        THEN [s EXCEPT !.stage = 5,
                       !.ok = @ /\ r.status = 200 /\ r.json.activated = TRUE]
        ELSE NoScenario

\* the password a completed signup or password reset made the officer's
Accepted(st, p) ==
    IF /\ p.pc = "done" /\ p.resp.status = 200
       /\ p.op \in {"signup", "reset-password"}
    THEN {a \in st : a[1] # p.body.username}
            \cup {<<p.body.username, p.body.password>>}
    ELSE st

\* slot i moves to p; the monitor sees a request that completes in a serial run
Step(i, p) ==
    /\ proc' = [proc EXCEPT ![i] = p]
    /\ scenario' = IF serial /\ p.pc = "done"
                   THEN ScenarioStep(scenario, p, officers)
                   ELSE scenario
    /\ stored' = Accepted(stored, p)
    /\ actor' = i
    /\ started' = IF proc[i].pc \in {"idle", "done"} THEN started + 1 ELSE started
    /\ UNCHANGED serial

(***************************************************************************)
(* POST /signup                                                            *)
(***************************************************************************)
\* mutant: the existence check looks at the mobile only
SignupFilterMobileOnly(d, b) == d.mobile = b.mobile

\* { $or: [{ username }, { mobile }] }
SignupFilter(d, b) == d.username = b.username \/ d.mobile = b.mobile

SignupFind(i) ==
    /\ CanStart(i)
    /\ \E b \in SignupBodies :
        LET Match(d) == SignupFilter(d, b)
        IN  Step(i,
              IF ~IsValidMobile(b.mobile)
              THEN Respond("signup", b, 400, [error |-> "Invalid mobile number"])
              ELSE IF FindOne({k \in Ids : Match(officers[k])}) # 0
              THEN Respond("signup", b, 400,
                      [error |-> "Username or mobile number already exists"])
              ELSE Await("signup", b, "create", NoDoc))
    /\ UNCHANGED <<officers, matched, matchedTx, activated, admins, results, boot>>

SignupCreate(i) ==
    /\ proc[i].pc = "create"
    /\ LET b == proc[i].body
       IN  IF IllegalArguments(b.password)
           THEN /\ Step(i, Catch("signup", b, "Illegal arguments"))
                /\ UNCHANGED officers
           ELSE \E salt \in Salts :
                LET d == NewOfficer(Len(officers) + 1, b, Hash(b.password, salt))
                IN  IF ~ValidOfficer(d)
                    THEN /\ Step(i, Catch("signup", b, "ValidationError"))
                         /\ UNCHANGED officers
                    ELSE IF DuplicateKeyOnCreate(officers, d)
                    THEN /\ Step(i, Catch("signup", b, "E11000"))
                         /\ UNCHANGED officers
                    ELSE /\ officers' = Append(officers, d)
                         /\ Step(i, Respond("signup", b, 200,
                                [message |-> "Officer created successfully",
                                 officer |-> StripPassword(d)]))
    /\ UNCHANGED <<matched, matchedTx, activated, admins, results, boot>>

(***************************************************************************)
(* POST /login                                                             *)
(***************************************************************************)
Login(i) ==
    /\ CanStart(i)
    /\ \E b \in LoginBodies :
        LET Match(d) == d.username = b.username
            k == FindOne({k \in Ids : Match(officers[k])})
        IN  Step(i,
              IF k = 0
              THEN Respond("login", b, 401, [error |-> "Invalid credentials"])
              ELSE IF IllegalArguments(b.password)
              THEN Catch("login", b, "Illegal arguments")
              ELSE IF ~Compare(b.password, officers[k].password)
              THEN Respond("login", b, 401, [error |-> "Invalid credentials"])
              ELSE Respond("login", b, 200,
                      [message |-> "Login successful",
                       officer |-> StripPassword(officers[k]),
                       subscribed |-> officers[k].subscribed]))
    /\ UNCHANGED <<officers, matched, matchedTx, activated, admins, results, boot>>

(***************************************************************************)
(* POST /submit-transaction                                                *)
(***************************************************************************)
\* mutant: the lookup is restricted to the requesting officer
TransactionFilterOwn(d, b) ==
    d.transactionId = b.transactionId /\ d.username = b.username

\* mutant: the lookup skips the requesting officer
TransactionFilterOthers(d, b) ==
    d.transactionId = b.transactionId /\ d.username # b.username

\* { transactionId }
TransactionFilter(d, b) == d.transactionId = b.transactionId

\* mutant: the update leaves subscribed as it is
TransactionUpdateKeepsSubscribed(d, b) ==
    [d EXCEPT !.transactionId = b.transactionId,
              !.subscriptionDate = Now("submit-transaction")]

\* { transactionId, subscriptionDate: new Date(), subscribed: false }
TransactionUpdate(d, b) ==
    [d EXCEPT !.transactionId = b.transactionId,
              !.subscriptionDate = Now("submit-transaction"),
              !.subscribed = FALSE]

SubmitTransactionFind(i) ==
    /\ CanStart(i)
    /\ \E b \in TransactionBodies :
        LET Match(d) == TransactionFilter(d, b)
        IN  Step(i,
              IF InvalidTransactionId(b.transactionId)
              THEN Respond("submit-transaction", b, 400,
                      [error |-> "Invalid or missing 12-digit transaction ID"])
              ELSE IF FindOne({k \in Ids : Match(officers[k])}) # 0
              THEN Respond("submit-transaction", b, 400,
                      [error |-> "Transaction ID already used"])
              ELSE Await("submit-transaction", b, "update", NoDoc))
    /\ UNCHANGED <<officers, matched, matchedTx, activated, admins, results, boot>>

SubmitTransactionUpdate(i) ==
    /\ proc[i].pc = "update"
    /\ LET b == proc[i].body
           Match(d) == d.username = b.username
           k == FindOne({k \in Ids : Match(officers[k])})
       IN  IF k = 0
           THEN /\ Step(i, Respond("submit-transaction", b, 404,
                        [error |-> "Officer not found"]))
                /\ UNCHANGED <<officers, activated>>
           ELSE IF DuplicateKeyOnUpdate(officers, k, b.transactionId)
           THEN /\ Step(i, Catch("submit-transaction", b, "E11000"))
                /\ UNCHANGED <<officers, activated>>
           ELSE /\ officers' = [officers EXCEPT
                                  ![k] = TransactionUpdate(officers[k], b)]
                /\ activated' = {a \in activated : a[1] # k}
                /\ Step(i, Respond("submit-transaction", b, 200,
                        [message |-> "Transaction submitted successfully",
                         transactionId |-> officers'[k].transactionId]))
    /\ UNCHANGED <<matched, matchedTx, admins, results, boot>>

(***************************************************************************)
(* POST /officer/status                                                    *)
(***************************************************************************)
Status(i) ==
    /\ CanStart(i)
    /\ \E b \in StatusBodies :
        LET Match(d) == d.username = b.username
            k == FindOne({k \in Ids : Match(officers[k])})
        IN  Step(i,
              IF k = 0
              THEN Respond("status", b, 404, [error |-> "Officer not found"])
              ELSE Respond("status", b, 200,
                      [activated |-> officers[k].subscribed]))
    /\ UNCHANGED <<officers, matched, matchedTx, activated, admins, results, boot>>

(***************************************************************************)
(* POST /officer/reset-password                                            *)
(***************************************************************************)
ResetPasswordFind(i) ==
    /\ CanStart(i)
    /\ \E b \in ResetBodies :
        LET Match(d) == d.username = b.username /\ d.mobile = b.mobile
            k == FindOne({k \in Ids : Match(officers[k])})
        IN  Step(i,
              IF k = 0
              THEN Respond("reset-password", b, 404,
                      [error |-> "Officer not found or mobile mismatch"])
              ELSE Await("reset-password", b, "resetSave", officers[k]))
    /\ UNCHANGED <<officers, matched, matchedTx, activated, admins, results, boot>>

\* officer.save() writes the modified paths of the document it loaded
ResetPasswordSave(i) ==
    /\ proc[i].pc = "resetSave"
    /\ LET b == proc[i].body
           k == proc[i].doc._id
       IN  IF IllegalArguments(b.password)
           THEN /\ Step(i, Catch("reset-password", b, "Illegal arguments"))
                /\ UNCHANGED officers
           ELSE \E salt \in Salts :
                /\ officers' = [officers EXCEPT
                                  ![k].password = Hash(b.password, salt)]
                /\ Step(i, Respond("reset-password", b, 200,
                        [message |-> "Password reset successful"]))
    /\ UNCHANGED <<matched, matchedTx, activated, admins, results, boot>>

(***************************************************************************)
(* POST /admin/activate                                                    *)
(***************************************************************************)
\* mutant: the already-subscribed check is missing
NeverAlreadySubscribed(d) == FALSE

\* if (officer.subscribed) return 400
AlreadySubscribed(d) == d.subscribed

\* mutant: only the date is set
ActivateSetDateOnly(d) == [d EXCEPT !.subscriptionDate = Now("activate")]

\* officer.subscribed = true; officer.subscriptionDate = new Date()
ActivateSet(d) ==
    [d EXCEPT !.subscribed = TRUE, !.subscriptionDate = Now("activate")]

ActivateFind(i) ==
    /\ CanStart(i)
    /\ \E b \in ActivateBodies :
        LET Match(d) == TransactionFilter(d, b)
            k == IF InvalidTransactionId(b.transactionId) THEN 0
                 ELSE FindOne({k \in Ids : Match(officers[k])})
        IN  /\ Step(i,
                 IF InvalidTransactionId(b.transactionId)
                 THEN Respond("activate", b, 400,
                         [error |-> "Invalid transaction ID"])
                 ELSE IF k = 0
                 THEN Respond("activate", b, 404, [error |-> "Officer not found"])
                 ELSE IF AlreadySubscribed(officers[k])
                 THEN Respond("activate", b, 400, [error |-> "Already subscribed"])
                 ELSE Await("activate", b, "save", officers[k]))
            /\ matched' = IF k = 0 THEN matched ELSE matched \cup {k}
            /\ matchedTx' = IF k = 0 THEN matchedTx
                            ELSE matchedTx \cup {<<k, b.transactionId>>}
    /\ UNCHANGED <<officers, activated, admins, results, boot>>

\* officer.save() writes the modified paths of the document it loaded
ActivateSave(i) ==
    /\ proc[i].pc = "save"
    /\ LET b == proc[i].body
           k == proc[i].doc._id
           d == ActivateSet(proc[i].doc)
       IN  /\ officers' = [officers EXCEPT
                             ![k].subscribed = d.subscribed,
                             ![k].subscriptionDate = d.subscriptionDate]
           /\ activated' = activated \cup {<<k, b.transactionId>>}
           /\ Step(i, Respond("activate", b, 200,
                   [message |-> "Subscription activated successfully"]))
    /\ UNCHANGED <<matched, matchedTx, admins, results, boot>>

(***************************************************************************)
(* The Admin collection: initializeAdmin, POST /admin/login,               *)
(* POST /admin/reset-password                                              *)
(***************************************************************************)
\* server instances that may run initializeAdmin at the same time
Instances == {1, 2}

AdminName == <<"a", "d", "m", "i", "n">>
AdminPassword == <<"a", "d", "m", "i", "n", "1", "2", "3">>

NotBooted == [pc |-> "idle", found |-> FALSE]

AdminLoginBodies ==
    {Body(undefined, undefined, undefined, u, p, undefined) :
        u \in {AdminName, U1},
        p \in {AdminPassword, P2} \cup (IF serial THEN {undefined} ELSE {})}

AdminResetBodies ==
    {Body(undefined, undefined, undefined, undefined, p, undefined) :
        p \in {P2} \cup (IF serial THEN {undefined} ELSE {})}

\* Admin.exists({ username: 'admin' })
AdminExists(docs) == \E k \in 1..Len(docs) : docs[k].username = AdminName

\* mutant: username lacks unique: true
NoAdminIndex(docs, d) == FALSE

\* unique index on Admin.username
DuplicateAdmin(docs, d) ==
    \E k \in 1..Len(docs) : docs[k].username = d.username

\* initializeAdmin: the exists check; a restart abandons a pending create
InitializeAdminExists(j) ==
    /\ boot' = [boot EXCEPT ![j] =
                  IF AdminExists(admins)
                  THEN [pc |-> "done", found |-> TRUE]
                  ELSE [pc |-> "create", found |-> FALSE]]
    /\ UNCHANGED <<officers, admins, results, proc, matched, matchedTx, stored,
                   activated, scenario, started, actor, serial>>

\* initializeAdmin: hash 'admin123' and create; a rejected create is not caught
InitializeAdminCreate(j) ==
    /\ boot[j].pc = "create"
    /\ \E salt \in Salts :
        LET d == [_id |-> Len(admins) + 1, username |-> AdminName,
                  password |-> Hash(AdminPassword, salt)]
        IN  IF DuplicateAdmin(admins, d)
            THEN /\ boot' = [boot EXCEPT ![j].pc = "rejected"]
                 /\ UNCHANGED admins
            ELSE /\ boot' = [boot EXCEPT ![j].pc = "done"]
                 /\ admins' = Append(admins, d)
    /\ UNCHANGED <<officers, results, proc, matched, matchedTx, stored,
                   activated, scenario, started, actor, serial>>

AdminLogin(i) ==
    /\ CanStart(i)
    /\ \E b \in AdminLoginBodies :
        LET k == FindOne({n \in 1..Len(admins) :
                            admins[n].username = b.username})
        IN  Step(i,
              IF k = 0
              THEN Respond("admin-login", b, 401,
                      [error |-> "Invalid credentials"])
              ELSE IF IllegalArguments(b.password)
              THEN Catch("admin-login", b, "Illegal arguments")
              ELSE IF ~Compare(b.password, admins[k].password)
              THEN Respond("admin-login", b, 401,
                      [error |-> "Invalid credentials"])
              ELSE Respond("admin-login", b, 200,
                      [message |-> "Admin login successful"]))
    /\ UNCHANGED <<officers, admins, results, boot, matched, matchedTx,
                   activated>>

\* findOneAndUpdate({ username: 'admin' }, { password }) without upsert:
\* when no document matches, nothing is written and nothing is thrown
AdminResetPassword(i) ==
    /\ CanStart(i)
    /\ \E b \in AdminResetBodies :
        IF IllegalArguments(b.password)
        THEN /\ Step(i, Catch("admin-reset", b, "Illegal arguments"))
             /\ UNCHANGED admins
        ELSE \E salt \in Salts :
             LET k == FindOne({n \in 1..Len(admins) :
                                 admins[n].username = AdminName})
             IN  /\ admins' = IF k = 0 THEN admins
                              ELSE [admins EXCEPT
                                      ![k].password = Hash(b.password, salt)]
                 /\ Step(i, Respond("admin-reset", b, 200,
                         [message |-> "Admin password updated"]))
    /\ UNCHANGED <<officers, results, boot, matched, matchedTx, activated>>

(***************************************************************************)
(* GET /admin/officers                                                     *)
(***************************************************************************)
\* mutant: the projection is left out of the query
ProjectAll(d) == d

\* the projection { password: 0 }
ProjectWithoutPassword(d) == [f \in (DOMAIN d) \ {"password"} |-> d[f]]

\* sort({ createdAt: -1 }): createdAt grows with creation, the newest first
NewestFirst(docs) == [n \in 1..Len(docs) |-> docs[Len(docs) + 1 - n]]

AdminOfficers(i) ==
    /\ CanStart(i)
    /\ Step(i, Respond("admin-officers", NoBody, 200,
            [list |-> [n \in 1..Len(officers) |->
                         ProjectWithoutPassword(NewestFirst(officers)[n])]]))
    /\ UNCHANGED <<officers, admins, results, boot, matched, matchedTx,
                   activated>>

(***************************************************************************)
(* The Result collection: POST /submit-result, GET /get-results            *)
(***************************************************************************)
\* JSON values of the fields that are not strings of the model
Number(n) == [type |-> "number", n |-> n]
Absent == [type |-> "undefined", n |-> 0]
\* a string that is neither a number nor a date
Garbage == [type |-> "string", n |-> 0]
\* a date string that parses to time n, and the Date of time n
DateAt(n) == [type |-> "date", n |-> n]
InvalidDate == [type |-> "invalid", n |-> 0]

Unknown == <<"U", "n", "k", "n", "o", "w", "n">>
NotProvided == <<"N", "o", "t", " ", "P", "r", "o", "v", "i", "d", "e", "d">>

\* the time a supplied date parses to; it can tie with a Date.now()
SuppliedTime == 2

ResultBody(username, name, phone, score, total, date) ==
    [username |-> username, name |-> name, phone |-> phone, score |-> score,
     total |-> total, date |-> date]

\* one complete body and its variants in one field (name and phone together)
ResultBodies ==
    {ResultBody(U1, NameA, M1, Number(8), Number(10), Absent),
     ResultBody(U1, undefined, undefined, Number(8), Number(10), Absent),
     ResultBody(U1, NameA, M1, Number(0), Number(10), Absent),
     ResultBody(U1, NameA, M1, Number(8), Number(10), DateAt(SuppliedTime)),
     ResultBody(U1, NameA, M1, Number(8), Number(10), Garbage),
     ResultBody(U1, NameA, M1, Absent, Number(10), Absent)}
    \cup (IF serial
          THEN {ResultBody(undefined, NameA, M1, Number(8), Number(10), Absent),
                ResultBody(<<>>, NameA, M1, Number(8), Number(10), Absent),
                ResultBody(U1, NameA, M1, Number(8), Number(0), Absent),
                ResultBody(U1, NameA, M1, Number(8), Absent, Absent),
                ResultBody(U1, NameA, M1, Garbage, Number(10), Absent)}
          ELSE {})

\* a string that is neither undefined nor empty
Truthy(v) == v # undefined /\ v # <<>>

\* mutant: !score and !total in place of the comparisons with null
MissingFieldsFalsy(b) ==
    \/ ~Truthy(b.username)
    \/ b.score.type = "undefined" \/ b.score = Number(0)
    \/ b.total.type = "undefined" \/ b.total = Number(0)

\* !username || score == null || total == null
MissingFields(b) ==
    \/ ~Truthy(b.username)
    \/ b.score.type = "undefined"
    \/ b.total.type = "undefined"

\* new Date(date): Invalid Date when the value does not parse
NewDate(v) == IF v.type = "date" THEN v ELSE InvalidDate

\* new Result({...}) at time now
NewResult(id, b, now) ==
    [_id |-> id, username |-> b.username,
     name |-> IF Truthy(b.name) THEN b.name ELSE Unknown,
     phone |-> IF Truthy(b.phone) THEN b.phone ELSE NotProvided,
     score |-> b.score, total |-> b.total,
     date |-> IF b.date.type # "undefined" THEN NewDate(b.date)
              ELSE DateAt(now)]

\* the casts and validation save() runs before it inserts
ValidResult(d) ==
    /\ Required(d.username)
    /\ d.score.type = "number"
    /\ d.total.type = "number"
    /\ d.date.type = "date"

\* mutant: the document is inserted without validation
SaveUnvalidated(docs, d) == Append(docs, d)

\* mutant: save() replaces the record of the same username
SaveUpsert(docs, d) ==
    IF \E k \in 1..Len(docs) : docs[k].username = d.username
    THEN [k \in 1..Len(docs) |->
            IF docs[k].username = d.username THEN d ELSE docs[k]]
    ELSE Append(docs, d)

\* result.save(): a new document is inserted when it is valid
Save(docs, d) == IF ValidResult(d) THEN Append(docs, d) ELSE docs

SubmitResult(i) ==
    /\ CanStart(i)
    /\ \E b \in ResultBodies :
        IF MissingFields(b)
        THEN /\ Step(i, Respond("submit-result", b, 400,
                     [error |-> "Missing fields"]))
             /\ UNCHANGED results
        ELSE LET d == NewResult(Len(results) + 1, b, started + 1)
             IN  /\ results' = Save(results, d)
                 /\ Step(i, IF ValidResult(d)
                            THEN Respond("submit-result", b, 200,
                                   [message |-> "Result submitted successfully"])
                            ELSE Catch("submit-result", b, "ValidationError"))
    /\ UNCHANGED <<officers, admins, boot, matched, matchedTx, activated>>

\* sort({ date: -1 }): the orders of docs with dates descending; the order
\* of documents of equal date is not determined
SortedByDateDesc(docs) ==
    LET N == 1..Len(docs)
    IN  {[n \in N |-> docs[f[n]]] :
            f \in {g \in [N -> N] :
                     /\ \A a, c \in N : a # c => g[a] # g[c]
                     /\ \A a, c \in N :
                          a < c => docs[g[a]].date.n >= docs[g[c]].date.n}}

GetResults(i) ==
    /\ CanStart(i)
    /\ \E list \in SortedByDateDesc(results) :
        Step(i, Respond("get-results", NoBody, 200, [list |-> list]))
    /\ UNCHANGED <<officers, admins, results, boot, matched, matchedTx,
                   activated>>

(***************************************************************************)
(* Specifications                                                          *)
(***************************************************************************)
InitStore ==
    /\ officers = <<>>
    /\ proc = [i \in Procs |-> Idle]
    /\ admins = <<>>
    /\ results = <<>>
    /\ boot = [j \in Instances |-> NotBooted]
    /\ matched = {}
    /\ matchedTx = {}
    /\ stored = {}
    /\ activated = {}
    /\ scenario = NoScenario
    /\ actor = 1

\* requests are handled concurrently
Init == InitStore /\ started = 0 /\ serial = FALSE

\* requests are handled one after another
InitSeq == InitStore /\ started = 0 /\ serial = TRUE

\* a run over every handler: MaxRequestsAll requests are left of the budget
InitAll ==
    InitStore /\ started = MaxRequests - MaxRequestsAll /\ serial = FALSE

Next ==
    \E i \in Procs :
        \/ SignupFind(i)
        \/ SignupCreate(i)
        \/ Login(i)
        \/ SubmitTransactionFind(i)
        \/ SubmitTransactionUpdate(i)
        \/ Status(i)
        \/ ResetPasswordFind(i)
        \/ ResetPasswordSave(i)
        \/ ActivateFind(i)
        \/ ActivateSave(i)

Spec == Init /\ [][Next]_vars

SpecSeq == InitSeq /\ [][Next]_vars

\* the Admin collection alone: two instances booting, concurrent admin requests
NextAdmin ==
    \/ \E j \in Instances :
        \/ InitializeAdminExists(j)
        \/ InitializeAdminCreate(j)
    \/ \E i \in Procs :
        \/ AdminLogin(i)
        \/ AdminResetPassword(i)

SpecAdmin == Init /\ [][NextAdmin]_vars

\* the Result collection alone, requests one after another
NextResult ==
    \E i \in Procs :
        \/ SubmitResult(i)
        \/ GetResults(i)

SpecResult == InitSeq /\ [][NextResult]_vars

\* every handler, requests handled concurrently, with one booting instance
NextAll ==
    \/ Next
    \/ InitializeAdminExists(1)
    \/ InitializeAdminCreate(1)
    \/ \E i \in Procs :
        \/ AdminLogin(i)
        \/ AdminResetPassword(i)
        \/ AdminOfficers(i)
        \/ SubmitResult(i)
        \/ GetResults(i)

SpecAll == InitAll /\ [][NextAll]_vars

(***************************************************************************)
(* Vocabulary of the properties                                            *)
(***************************************************************************)
\* the last step was slot i receiving a request
Received(i) == actor' = i /\ started' = started + 1

\* the last step was slot i sending its response (initializeAdmin is no slot)
Responded(i) == actor' = i /\ proc'[i].pc = "done" /\ boot' = boot

Done(i, op) == proc[i].pc = "done" /\ proc[i].op = op

\* some officer holds username u / mobile m / transactionId t
HasUsername(docs, u) == \E k \in 1..Len(docs) : docs[k].username = u
HasMobile(docs, m) == \E k \in 1..Len(docs) : docs[k].mobile = m
HasTransactionId(docs, t) ==
    t # undefined /\ \E k \in 1..Len(docs) : docs[k].transactionId = t

\* the officers that hold transactionId t and are not subscribed
Unsubscribed(docs, t) ==
    {k \in 1..Len(docs) :
        t # undefined /\ docs[k].transactionId = t /\ ~docs[k].subscribed}

(***************************************************************************)
(* C1: an officer is subscribed only if an activation lookup by            *)
(* transactionId found that officer before, and the only step that turns   *)
(* subscribed from false to true is the save of POST /admin/activate.      *)
(***************************************************************************)
C1_OnlyActivationSubscribes ==
    /\ [](\A k \in Ids : officers[k].subscribed => k \in matched)
    /\ [][\A k \in Ids :
            (~officers[k].subscribed /\ officers'[k].subscribed)
                => \E i \in Procs :
                      /\ Responded(i)
                      /\ proc[i].op = "activate" /\ proc[i].pc = "save"
                      /\ proc[i].doc._id = k]_vars

\* an officer was activated, and a password reset answered 200 after signup
C1_Witness ==
    /\ \E k \in Ids : officers[k].subscribed /\ k \in matched
    /\ \E i \in Procs : Done(i, "reset-password") /\ proc[i].resp.status = 200

(***************************************************************************)
(* C2: no two distinct officers hold the same transactionId, also when two *)
(* submit-transaction requests both pass the lookup before either writes.  *)
(***************************************************************************)
C2_TransactionIdUnique ==
    \A j, k \in Ids :
        (j # k /\ officers[j].transactionId # undefined)
            => officers[j].transactionId # officers[k].transactionId

\* two requests for one transactionId both passed the lookup; one won
C2_Witness ==
    \E i, j \in Procs :
        /\ Done(i, "submit-transaction") /\ Done(j, "submit-transaction")
        /\ proc[i].body.transactionId = proc[j].body.transactionId
        /\ proc[i].body.username # proc[j].body.username
        /\ proc[i].resp.status = 200
        /\ proc[j].thrown = "E11000"

(***************************************************************************)
(* C3: at most one officer holds a given username, and at most one a given *)
(* mobile, also when two signups both pass the existence check before      *)
(* either creates its record.                                              *)
(***************************************************************************)
C3_UsernameAndMobileUnique ==
    \A j, k \in Ids :
        j # k => /\ officers[j].username # officers[k].username
                 /\ officers[j].mobile # officers[k].mobile

\* two signups for one username both passed the check; one created the record
C3_Witness ==
    \E i, j \in Procs :
        /\ Done(i, "signup") /\ Done(j, "signup")
        /\ proc[i].body.username = proc[j].body.username
        /\ proc[i].body.mobile # proc[j].body.mobile
        /\ proc[i].resp.status = 200
        /\ proc[j].thrown = "E11000"

(***************************************************************************)
(* C9: a signup or submit-transaction that fails on a uniqueness conflict  *)
(* (found by the handler's lookup or by the unique index) answers 400,     *)
(* never 500.                                                              *)
(***************************************************************************)
UniquenessConflict(p) ==
    \/ p.thrown = "E11000"
    \/ /\ p.resp.status \in {400, 500}
       /\ p.resp.json.error \in {"Username or mobile number already exists",
                                 "Transaction ID already used"}

C9_ConflictAnswers400 ==
    \A i \in Procs :
        (/\ proc[i].pc = "done"
         /\ proc[i].op \in {"signup", "submit-transaction"}
         /\ UniquenessConflict(proc[i]))
            => proc[i].resp.status = 400

(***************************************************************************)
(* C4: from a store without officer u, the requests signup(u, m, p),       *)
(* login(u, p), submit-transaction(u, t) with t unused, activate(t) and    *)
(* status(u), handled one after another, all answer 200; the login reports *)
(* subscribed = false and the status activated = true.                     *)
(***************************************************************************)
C4_ScenarioSucceeds == scenario.stage >= 1 => scenario.ok

\* C4 as amended: the same, when no officer holds the mobile m either
C4_ScenarioSucceedsWithFreeMobile ==
    (scenario.stage >= 1 /\ scenario.mobileFree) => scenario.ok

\* the five requests of the scenario have been answered
C4_Witness == scenario.stage = 5 /\ scenario.mobileFree /\ scenario.ok

(***************************************************************************)
(* C5: once an officer with username u exists, a signup with username u    *)
(* answers 400 and leaves the Officer collection as it was.                *)
(***************************************************************************)
C5_SecondSignupRejected ==
    [][\A i \in Procs :
        (/\ Received(i)
         /\ proc'[i].op = "signup"
         /\ HasUsername(officers, proc'[i].body.username))
            => /\ proc'[i].pc = "done"
               /\ proc'[i].resp.status = 400
               /\ officers' = officers]_vars

\* a signup for a taken username, with another mobile, was answered 400
C5_Witness ==
    \E i \in Procs :
        /\ Done(i, "signup")
        /\ proc[i].resp.status = 400
        /\ HasUsername(officers, proc[i].body.username)
        /\ IsValidMobile(proc[i].body.mobile)
        /\ ~HasMobile(officers, proc[i].body.mobile)

(***************************************************************************)
(* C6: a submit-transaction under username B with a transactionId bound to *)
(* another officer A answers 400 and leaves every record as it was.        *)
(***************************************************************************)
BoundToOther(docs, b) ==
    \E k \in 1..Len(docs) :
        /\ b.transactionId # undefined
        /\ docs[k].transactionId = b.transactionId
        /\ docs[k].username # b.username

C6_ForeignTransactionIdRejected ==
    [][\A i \in Procs :
        (/\ Received(i)
         /\ proc'[i].op = "submit-transaction"
         /\ BoundToOther(officers, proc'[i].body))
            => /\ proc'[i].pc = "done"
               /\ proc'[i].resp.status = 400
               /\ officers' = officers]_vars

\* officer B exists and asked for a transactionId that officer A holds
C6_Witness ==
    \E i \in Procs :
        /\ Done(i, "submit-transaction")
        /\ proc[i].resp.status = 400
        /\ HasUsername(officers, proc[i].body.username)
        /\ BoundToOther(officers, proc[i].body)

(***************************************************************************)
(* C7: with requests handled one after another, an activation whose        *)
(* transactionId is bound to an unsubscribed officer answers 200 and sets  *)
(* subscribed; a later activation with the same transactionId, with no     *)
(* submit-transaction by that officer in between, answers 400 and changes  *)
(* no record.                                                              *)
(***************************************************************************)
C7_ActivateOnceThenRejected ==
    [][\A i \in Procs :
        LET t == proc'[i].body.transactionId
        IN  /\ (/\ Received(i)
                /\ proc'[i].op = "activate"
                /\ Unsubscribed(officers, t) # {})
                   => proc'[i].pc = "save"
            /\ (Responded(i) /\ proc[i].pc = "save")
                   => /\ proc'[i].resp.status = 200
                      /\ Unsubscribed(officers, t) # {}
                      /\ \A k \in Unsubscribed(officers, t) :
                            officers'[k].subscribed
            /\ (/\ Received(i)
                /\ proc'[i].op = "activate"
                /\ \E a \in activated : a[2] = t)
                   => /\ proc'[i].pc = "done"
                      /\ proc'[i].resp.status = 400
                      /\ officers' = officers]_vars

\* a second activation with an activated transactionId was answered 400
C7_Witness ==
    \E i \in Procs :
        /\ Done(i, "activate")
        /\ proc[i].resp.status = 400
        /\ \E a \in activated : a[2] = proc[i].body.transactionId

(***************************************************************************)
(* C8: a submit-transaction for an existing username with a 12-digit       *)
(* transactionId t answers 400 'already used' exactly when t is bound to a *)
(* different officer, and otherwise answers 200, echoes t and binds t.     *)
(***************************************************************************)
AlreadyUsed(p) ==
    /\ p.pc = "done"
    /\ p.resp.status = 400
    /\ p.resp.json.error = "Transaction ID already used"

\* slot i answers 200, echoes t and officer k holds t afterwards
Bound(i, t) ==
    /\ proc'[i].resp.status = 200
    /\ proc'[i].resp.json.transactionId = t
    /\ \E k \in Ids : /\ officers'[k].username = proc'[i].body.username
                      /\ officers'[k].transactionId = t

C8_RejectedIffBoundToOther ==
    [][\A i \in Procs :
        LET b == proc'[i].body
        IN  /\ (/\ Received(i)
                /\ proc'[i].op = "submit-transaction"
                /\ ~InvalidTransactionId(b.transactionId)
                /\ HasUsername(officers, b.username))
                   => /\ AlreadyUsed(proc'[i]) <=> BoundToOther(officers, b)
                      /\ ~BoundToOther(officers, b) => proc'[i].pc = "update"
            /\ (/\ Responded(i)
                /\ proc[i].pc = "update"
                /\ HasUsername(officers, b.username))
                   => Bound(i, b.transactionId)]_vars

\* C8 as amended: 400 'already used' exactly when the lookup finds t bound to
\* any officer, the requesting one included; otherwise 200, t echoed and
\* bound, unless another officer took t after the lookup: then 500, no write.
C8_RejectedIffBound ==
    [][\A i \in Procs :
        LET b == proc'[i].body
        IN  /\ (/\ Received(i)
                /\ proc'[i].op = "submit-transaction"
                /\ ~InvalidTransactionId(b.transactionId)
                /\ HasUsername(officers, b.username))
                   => /\ AlreadyUsed(proc'[i])
                            <=> HasTransactionId(officers, b.transactionId)
                      /\ ~HasTransactionId(officers, b.transactionId)
                            => proc'[i].pc = "update"
            /\ (/\ Responded(i)
                /\ proc[i].pc = "update"
                /\ HasUsername(officers, b.username))
                   => IF BoundToOther(officers, b)
                      THEN /\ proc'[i].resp.status = 500
                           /\ officers' = officers
                      ELSE Bound(i, b.transactionId)]_vars

\* an officer resubmitted the transactionId it holds and was answered 400
C8_Witness ==
    \E i \in Procs :
        /\ Done(i, "submit-transaction")
        /\ AlreadyUsed(proc[i])
        /\ ~BoundToOther(officers, proc[i].body)
        /\ \E k \in Ids :
              /\ officers[k].username = proc[i].body.username
              /\ officers[k].transactionId = proc[i].body.transactionId

(***************************************************************************)
(* C10: a signup with a required input missing or a mobile that is not 10  *)
(* digits answers 400 and creates no record.                               *)
(***************************************************************************)
MalformedSignup(b) ==
    \/ ~Required(b.name) \/ ~Required(b.address) \/ ~Required(b.username)
    \/ ~Required(b.password) \/ ~IsValidMobile(b.mobile)

C10_MalformedSignupAnswers400 ==
    [][\A i \in Procs :
        (/\ Responded(i)
         /\ proc'[i].op = "signup"
         /\ MalformedSignup(proc'[i].body))
            => /\ proc'[i].resp.status = 400
               /\ officers' = officers]_vars

(***************************************************************************)
(* C11: an activation with a 12-digit transactionId that no officer holds  *)
(* answers 404 and changes no record; with a malformed or missing          *)
(* transactionId it answers 400 before any lookup.                         *)
(***************************************************************************)
TwelveDigits(t) ==
    t # undefined /\ Len(t) = 12 /\ \A n \in 1..Len(t) : t[n] \in Digits

C11_UnknownActivation404 ==
    [][\A i \in Procs :
        LET t == proc'[i].body.transactionId
        IN  (Received(i) /\ proc'[i].op = "activate")
                => /\ ~TwelveDigits(t)
                        => /\ proc'[i].pc = "done"
                           /\ proc'[i].resp.status = 400
                           /\ matchedTx' = matchedTx
                           /\ officers' = officers
                   /\ (TwelveDigits(t)
                          /\ ~HasTransactionId(officers, t))
                        => /\ proc'[i].pc = "done"
                           /\ proc'[i].resp.status = 404
                           /\ matchedTx' = matchedTx
                           /\ officers' = officers]_vars

\* an 11-digit transactionId was refused while some officer holds one
C11_Witness ==
    \E i \in Procs :
        /\ Done(i, "activate")
        /\ proc[i].body.transactionId = TShort
        /\ proc[i].resp.status = 400
        /\ \E k \in Ids : officers[k].transactionId # undefined

(***************************************************************************)
(* C17: a successful submit-transaction by a subscribed officer replaces   *)
(* the transactionId and resets subscribed to false; with requests handled *)
(* one after another, officer/status then reports activated = true only    *)
(* after an activation matched the officer's current transactionId.        *)
(***************************************************************************)
C17_ResubmissionResets ==
    [][\A i \in Procs :
        LET b == proc'[i].body
        IN  /\ (/\ Responded(i)
                /\ proc[i].pc = "update"
                /\ proc'[i].resp.status = 200)
                  => \A k \in Ids :
                        officers[k].username = b.username
                            => /\ officers'[k].transactionId = b.transactionId
                               /\ ~officers'[k].subscribed
            /\ (/\ Received(i)
                /\ proc'[i].op = "status"
                /\ proc'[i].resp.status = 200
                /\ proc'[i].resp.json.activated)
                  => \E k \in Ids :
                        /\ officers[k].username = b.username
                        /\ <<k, officers[k].transactionId>> \in activated]_vars

\* a once activated officer resubmitted and its status reads not activated
C17_Witness ==
    \E i \in Procs, k \in Ids :
        /\ Done(i, "status")
        /\ proc[i].resp.status = 200
        /\ ~proc[i].resp.json.activated
        /\ officers[k].username = proc[i].body.username
        /\ k \in matched
        /\ officers[k].subscriptionDate = Now("submit-transaction")

C19_SubscribedUnderMatchedTransactionId ==
    \A k \in Ids :
        officers[k].subscribed
            => <<k, officers[k].transactionId>> \in matchedTx

(***************************************************************************)
(* C12: initializeAdmin is idempotent.  However its invocations interleave *)
(* with each other and with admin logins and password resets, the Admin    *)
(* collection never holds more than one record, holds exactly one record   *)
(* named 'admin' once an invocation has completed, and an invocation       *)
(* writes only when no admin record exists, so it never overwrites a       *)
(* password an earlier reset stored.                                       *)
(***************************************************************************)
AdminRecords == {k \in 1..Len(admins) : admins[k].username = AdminName}

C12_InitializeAdminIdempotent ==
    /\ [](/\ Len(admins) <= 1
          /\ (\E j \in Instances : boot[j].pc = "done")
                => Cardinality(AdminRecords) = 1)
    /\ [][(boot' # boot /\ AdminExists(admins)) => admins' = admins]_vars

\* an invocation found the record whose password a reset had replaced
C12_Witness ==
    /\ \E j \in Instances : boot[j].pc = "done" /\ boot[j].found
    /\ Len(admins) = 1
    /\ Compare(P2, admins[1].password)

(***************************************************************************)
(* C20: whenever POST /admin/reset-password answers 200 for password p,    *)
(* the record of 'admin' holds p, and an admin login with ('admin', p)     *)
(* received while the record holds p answers 200; also when the reset      *)
(* arrives before initializeAdmin has created the record.                  *)
(***************************************************************************)
AdminHolds(docs, pw) ==
    \E k \in 1..Len(docs) :
        docs[k].username = AdminName /\ Compare(pw, docs[k].password)

C20_ResetTakesEffect ==
    [][\A i \in Procs :
        LET b == proc'[i].body
        IN  /\ (/\ Responded(i)
                /\ proc'[i].op = "admin-reset"
                /\ proc'[i].resp.status = 200)
                  => AdminHolds(admins', b.password)
            /\ (/\ Received(i)
                /\ proc'[i].op = "admin-login"
                /\ b.username = AdminName
                /\ b.password # undefined
                /\ AdminHolds(admins, b.password))
                  => proc'[i].resp.status = 200]_vars

(***************************************************************************)
(* C13: every step of a handler changes at most one record of at most one  *)
(* collection, a handler writes only in the step in which it responds 200, *)
(* and so a request that responds 400, 401, 404 or 500 has left the Admin, *)
(* Officer and Result collections as they were.                            *)
(***************************************************************************)
RecordsChanged(old, new) ==
    LET longest == IF Len(old) > Len(new) THEN Len(old) ELSE Len(new)
    IN  Cardinality({k \in 1..longest :
            IF k > Len(old) \/ k > Len(new) THEN TRUE ELSE old[k] # new[k]})

C13_AtMostOneWriteAndNoneOnFailure ==
    [][/\ RecordsChanged(officers, officers')
            + RecordsChanged(admins, admins')
            + RecordsChanged(results, results') <= 1
       /\ \A i \in Procs :
            (Responded(i) /\ proc'[i].resp.status # 200)
                => UNCHANGED <<officers, admins, results>>
       /\ (boot' = boot /\ <<officers, admins, results>>' #
                             <<officers, admins, results>>)
            => \E i \in Procs : Responded(i) /\ proc'[i].resp.status = 200]_vars

\* a save that validation rejected, answered 500, next to a stored result
C13_Witness ==
    /\ \E i \in Procs :
         /\ Done(i, "submit-result")
         /\ proc[i].thrown = "ValidationError"
    /\ Len(results) >= 1

(***************************************************************************)
(* C14: the Result collection is append-only.  No step of any handler      *)
(* changes or removes an existing Result record, only submit-result adds   *)
(* one, a submit-result that responds 200 adds exactly one record (also    *)
(* when the username already has one) and one that responds 400 adds none. *)
(***************************************************************************)
C14_ResultsAppendOnly ==
    [][/\ Len(results') >= Len(results)
       /\ \A k \in 1..Len(results) : results'[k] = results[k]
       /\ results' # results
            => \E i \in Procs : Responded(i) /\ proc'[i].op = "submit-result"
       /\ \A i \in Procs :
            (Responded(i) /\ proc'[i].op = "submit-result")
                => /\ proc'[i].resp.status = 200
                        => Len(results') = Len(results) + 1
                   /\ proc'[i].resp.status = 400 => results' = results]_vars

\* a second result of the same username was accepted
C14_Witness ==
    /\ Len(results) >= 2
    /\ results[1].username = results[2].username
    /\ \E i \in Procs :
         Done(i, "submit-result") /\ proc[i].resp.status = 200

(***************************************************************************)
(* C15: submit-result responds 400 exactly when username is missing or     *)
(* empty or score or total is absent (0 is accepted); otherwise it         *)
(* responds 200 and the entry is stored, with name "Unknown" and phone     *)
(* "Not Provided" when they were omitted, and every get-results lists the  *)
(* stored entries.                                                         *)
(***************************************************************************)
Omitted(b) ==
    \/ b.username = undefined \/ b.username = <<>>
    \/ b.score = Absent
    \/ b.total = Absent

Lists(list, docs) ==
    /\ Len(list) = Len(docs)
    /\ \A k \in 1..Len(docs) : \E n \in 1..Len(list) : list[n] = docs[k]

C15_SubmitResultAnswers ==
    [][\A i \in Procs :
        LET b == proc'[i].body
            r == proc'[i].resp
        IN  /\ (Responded(i) /\ proc'[i].op = "submit-result")
                => /\ r.status = 400 <=> Omitted(b)
                   /\ ~Omitted(b)
                        => /\ r.status = 200
                           /\ Len(results') = Len(results) + 1
                           /\ LET d == results'[Len(results')]
                              IN  /\ d.username = b.username
                                  /\ d.score = b.score /\ d.total = b.total
                                  /\ b.name = undefined => d.name = Unknown
                                  /\ b.phone = undefined
                                        => d.phone = NotProvided
            /\ (Responded(i) /\ proc'[i].op = "get-results")
                => r.status = 200 /\ Lists(r.json.list, results)]_vars

(***************************************************************************)
(* C16: the password a successful signup stores is not the submitted       *)
(* plaintext, and no response of signup, officer login or the admin        *)
(* officer list has a password field, neither at its top level nor in an   *)
(* officer it carries.                                                     *)
(***************************************************************************)
HasPasswordField(json) ==
    \/ "password" \in DOMAIN json
    \/ "officer" \in DOMAIN json /\ "password" \in DOMAIN json.officer
    \/ /\ "list" \in DOMAIN json
       /\ \E n \in 1..Len(json.list) : "password" \in DOMAIN json.list[n]

C16_PasswordNeverDisclosed ==
    /\ [](\A i \in Procs :
            (/\ proc[i].pc = "done"
             /\ proc[i].op \in {"signup", "login", "admin-officers"})
                => ~HasPasswordField(proc[i].resp.json))
    /\ [][\A i \in Procs :
            (/\ Responded(i)
             /\ proc'[i].op = "signup"
             /\ proc'[i].resp.status = 200)
                => officers'[Len(officers')].password # proc'[i].body.password]_vars

\* the officer list was answered with an officer in it
C16_Witness ==
    \E i \in Procs :
        /\ Done(i, "admin-officers")
        /\ Len(proc[i].resp.json.list) >= 1
        /\ \E k \in Ids : <<officers[k].username, P1>> \in stored

====
